---- MODULE Spec2Model ----
(***************************************************************************)
(* grub-core/lib/ieee1275/tcg2.c: the TPM2 command transport over the      *)
(* IEEE1275 (Open Firmware) client interface.                               *)
(*                                                                         *)
(* The state is the file's globals and function statics, the caller's      *)
(* memory (the *size cell and the byte buffers handed to                   *)
(* grub_tcg2_submit_command), and what a firmware test double observes:    *)
(* how often the device was opened, how often a method was dispatched,     *)
(* how often grub_error was called, and the record of the latest call.     *)
(* Each action is one call of one of the three public functions; the       *)
(* firmware's answers are inputs of the call.                              *)
(***************************************************************************)
EXTENDS Integers, Sequences, FiniteSets, TLC

----------------------------------------------------------------------------
(* Bounds of the model *)

\* device-open attempts made in one session
MaxOpens == 2
\* method dispatches made in one session
MaxDispatch == 2
\* largest response length the firmware reports
MaxResp == 3
\* length of the caller's input buffer
BufLen == 2

----------------------------------------------------------------------------
(* Program constants *)

IEEE1275_IHANDLE_INVALID == 0
NULL == 0
\* char buffer[20] in tpm_get_tpm_version
BufferSize == 20
\* the value tpm_get_tpm_version stores
VersionTpm2 == 2
\* grub_uint8_t grub_ieee1275_tpm_version starts as zero (legacy)
VersionLegacy == 0
\* a large value of a firmware cell: 0x7fffffff
CellBig == 32767 * 65536 + 65535

GRUB_ERR_NONE == "GRUB_ERR_NONE"
GRUB_ERR_UNKNOWN_DEVICE == "GRUB_ERR_UNKNOWN_DEVICE"
GRUB_ERR_BAD_DEVICE == "GRUB_ERR_BAD_DEVICE"
GRUB_ERR_INVALID_COMMAND == "GRUB_ERR_INVALID_COMMAND"
GRUB_ERR_BAD_ARGUMENT == "GRUB_ERR_BAD_ARGUMENT"

\* the two operations that keep a static error_displayed of their own
Kinds == {"get_max", "submit"}

\* "IBM,vtpm20" as character codes, without the terminating NUL
IBM_vtpm20 == <<73, 66, 77, 44, 118, 116, 112, 109, 50, 48>>

----------------------------------------------------------------------------
(* The caller's memory: addresses 1..MemSize, NULL is no address *)

InAddr == 1
OutAddr == InAddr + BufLen
MemSize == OutAddr + MaxResp
Addrs == 1..MemSize

\* what the caller's memory holds before the first call: every byte differs
InitMem == [a \in Addrs |-> a]
\* what *size holds before the first call
InitSize == 7

\* byte i (from 0) of the response the firmware writes; tag picks the
\* response.  No response byte is a byte of InitMem.
RespByte(tag, i) == 16 * tag + i

----------------------------------------------------------------------------
(* Inputs: the firmware's answers *)

\* the ihandles the firmware gives out; none is IEEE1275_IHANDLE_INVALID
Handles == {1, 2}
Rcs == {-1, 0}

Rep(n, c) == [i \in 1..n |-> c]

\* values of the "compatible" property the firmware may hold
Props ==
  { IBM_vtpm20 \o <<0>>,
    SubSeq(IBM_vtpm20, 1, 8) \o <<0>>,
    IBM_vtpm20 \o <<0>> \o SubSeq(IBM_vtpm20, 1, 8) \o <<0>>,
    IBM_vtpm20,
    SubSeq(IBM_vtpm20, 1, 9),
    IBM_vtpm20 \o Rep(12, 120) \o <<0>>,
    <<105, 98, 109>> \o SubSeq(IBM_vtpm20, 4, 10) \o <<0>>,
    <<>> }

\* What the uninitialized stack buffer may hold before the property is read:
\* zeros, bytes without a NUL, the tail of the string at the right place, or
\* the whole string "IBM,vtpm20" left there by an earlier function.  With the
\* last, a property of any length that lacks its NUL, the empty one too, can
\* read as "IBM,vtpm20".
Fills ==
  { Rep(BufferSize, 0),
    Rep(BufferSize, 120),
    [i \in 1..BufferSize |-> IF i = 10 THEN 48 ELSE IF i = 11 THEN 0 ELSE 204],
    IBM_vtpm20 \o Rep(BufferSize - 10, 0) }

\* the properties that fill the buffer or hold a NUL: no stack byte is read
TerminatedProps == {p \in Props : Len(p) >= BufferSize \/ \E i \in 1..Len(p) : p[i] = 0}

SizeCells == {0, 4096, CellBig}

\* The answers to a device open and to version detection.  An answer that
\* the code cannot reach is kept at its most telling value: a device node or
\* a property read that failed leaves the matching string behind.
InitFW ==
  [open_rc : {-1}, open_handle : {1}, fd_rc : {0}, gp_rc : {0},
   prop : {IBM_vtpm20 \o <<0>>}, fill : {Rep(BufferSize, 0)}]
  \cup
  [open_rc : {0}, open_handle : Handles, fd_rc : {-1}, gp_rc : Rcs,
   prop : {IBM_vtpm20 \o <<0>>}, fill : {Rep(BufferSize, 0)}]
  \cup
  [open_rc : {0}, open_handle : Handles, fd_rc : {0}, gp_rc : {-1},
   prop : {<<>>}, fill : {IBM_vtpm20 \o Rep(BufferSize - 10, 0)}]
  \cup
  [open_rc : {0}, open_handle : Handles, fd_rc : {0}, gp_rc : {0},
   prop : TerminatedProps, fill : {Rep(BufferSize, 0)}]
  \cup
  [open_rc : {0}, open_handle : Handles, fd_rc : {0}, gp_rc : {0},
   prop : Props \ TerminatedProps, fill : Fills]

\* The answers of a method dispatch: the return of the entry point and the
\* two result cells.  tag picks the response bytes of "pass-through-to-tpm".
Tags == {1}
MaxFW ==
  [call_rc : {-1}, catch_result : {0, 1}, cell : {4096}, tag : {1}]
  \cup
  [call_rc : {0}, catch_result : {1, CellBig}, cell : {4096}, tag : {1}]
  \cup
  [call_rc : {0}, catch_result : {0}, cell : SizeCells, tag : {1}]
SubFW ==
  [call_rc : {-1}, catch_result : {0, 1}, cell : {MaxResp}, tag : {1}]
  \cup
  [call_rc : {0}, catch_result : {1, CellBig}, cell : {MaxResp}, tag : {1}]
  \cup
  [call_rc : {0}, catch_result : {0}, cell : 0..MaxResp, tag : Tags]

\* the answers of a call that asks the firmware nothing
NoInitFW == [open_rc |-> 0, open_handle |-> 1, fd_rc |-> 0, gp_rc |-> 0,
             prop |-> IBM_vtpm20 \o <<0>>, fill |-> Rep(BufferSize, 0)]
NoCallFW == [call_rc |-> 0, catch_result |-> 0, cell |-> 0, tag |-> 1]

Answers(i, c) ==
  [ open_rc |-> i.open_rc, open_handle |-> i.open_handle, fd_rc |-> i.fd_rc,
    gp_rc |-> i.gp_rc, prop |-> i.prop, fill |-> i.fill,
    call_rc |-> c.call_rc, catch_result |-> c.catch_result, cell |-> c.cell,
    tag |-> c.tag ]

\* The arguments a caller passes to grub_tcg2_submit_command: the output
\* buffer is the input buffer or the region after it; the caller misses at
\* most one argument, or all four.
InputSizes == {0, BufLen}
Inputs == {NULL, InAddr}
OutputSizes == {0, BufLen}
Outputs == {NULL, InAddr, OutAddr}
Missing(a) ==
  {f \in {"input_size", "input", "output_size", "output"} : a[f] = 0}
SubmitArgs ==
  {a \in [input_size : InputSizes, input : Inputs,
          output_size : OutputSizes, output : Outputs] :
     Cardinality(Missing(a)) \in {0, 1, 4}}

----------------------------------------------------------------------------
(* State *)

VARIABLES
  grub_ieee1275_tpm_ihandle,  \* the cached device handle
  grub_ieee1275_tpm_version,  \* the interface version
  init_success,               \* static of grub_ieee1275_tpm_init
  error_displayed,            \* the static of each operation kind
  size,                       \* the caller's *size
  mem,                        \* the caller's memory
  opens,                      \* calls of grub_ieee1275_open so far
  dispatches,                 \* method dispatches through the entry point so far
  detections,                 \* calls of tpm_get_tpm_version so far
  warnings,                   \* calls of grub_error so far, per kind
  catches,                    \* calls that came back with catch_result set, per kind
  first_open,                 \* the ihandle of the first open that succeeded, or 0
  last                        \* the latest call: arguments, answers consumed, return

vars == <<grub_ieee1275_tpm_ihandle, grub_ieee1275_tpm_version, init_success,
          error_displayed, size, mem, opens, dispatches, detections, warnings,
          catches,
          first_open, last>>

\* no frame: the entry point was not called
NoFrame == [ name |-> "", nr_ins |-> 0, nr_outs |-> 0, cells |-> <<>>,
             written |-> [method |-> ""] ]

\* the session as one value, for the functions below
Sess ==
  [ ihandle |-> grub_ieee1275_tpm_ihandle,
    version |-> grub_ieee1275_tpm_version,
    init_success |-> init_success,
    error_displayed |-> error_displayed,
    size |-> size,
    mem |-> mem,
    opens |-> opens,
    dispatches |-> dispatches,
    detections |-> detections,
    warnings |-> warnings,
    \* the frame the entry point is handed in the call at hand
    frame |-> NoFrame ]

----------------------------------------------------------------------------
(* Collaborators outside the file *)

Min(a, b) == IF a < b THEN a ELSE b

\* grub_strcmp: walk both strings while neither is at its NUL and they agree,
\* then return the difference of the two bytes stopped at.  s1 and s2 are
\* the bytes at the two pointers; s2 is a literal, whose NUL follows its
\* last character.
RECURSIVE strcmp_from(_, _, _)
strcmp_from(s1, s2, i) ==
  LET c1 == s1[i]
      c2 == IF i <= Len(s2) THEN s2[i] ELSE 0
  IN IF c1 # 0 /\ c2 # 0 /\ c1 = c2
       THEN strcmp_from(s1, s2, i + 1)
       ELSE c1 - c2

grub_strcmp(s1, s2) == strcmp_from(s1, s2, 1)

\* grub_ieee1275_get_property into buffer[20]: the firmware copies at most
\* sizeof (buffer) bytes of the property; the rest of the buffer keeps what
\* the stack held.
PropertyBuffer(fw) ==
  [i \in 1..BufferSize |-> IF i <= Len(fw.prop) THEN fw.prop[i] ELSE fw.fill[i]]

\* grub_memcpy (grub_memmove): n bytes from src to dst, as if through a copy
grub_memcpy(m, dst, src, n) ==
  [a \in DOMAIN m |-> IF a >= dst /\ a < dst + n THEN m[src + (a - dst)] ELSE m[a]]

\* "pass-through-to-tpm": the firmware overwrites the command buffer with its
\* response, never more than buf_size bytes of it
FirmwareResponse(buf_size, fw) ==
  [i \in 1..Min(fw.cell, buf_size) |-> RespByte(fw.tag, i - 1)]

FirmwareWrite(m, buf_addr, resp) ==
  [a \in DOMAIN m |->
     IF a >= buf_addr /\ a < buf_addr + Len(resp) THEN resp[a - buf_addr + 1] ELSE m[a]]

----------------------------------------------------------------------------
(* The functions of tcg2.c.  Each takes the session and the firmware's     *)
(* answers and gives the session after the call and the value returned.    *)

\* tpm_get_tpm_version without the grub_strcmp: any readable property will do
tpm_get_tpm_version_NoCompare(version, fw) ==
  IF fw.fd_rc = 0 /\ fw.gp_rc = 0 THEN VersionTpm2 ELSE version

tpm_get_tpm_version(version, fw) ==
  IF /\ fw.fd_rc = 0
     /\ fw.gp_rc = 0
     /\ grub_strcmp(PropertyBuffer(fw), IBM_vtpm20) = 0
    THEN VersionTpm2
    ELSE version

\* grub_ieee1275_tpm_init without "init_success = 1": every call opens again
grub_ieee1275_tpm_init_Reopens(s, fw) ==
  IF s.init_success = 0
    THEN IF fw.open_rc < 0
           THEN [ s |-> [s EXCEPT !.opens = @ + 1,
                                  !.ihandle = IEEE1275_IHANDLE_INVALID],
                  err |-> GRUB_ERR_UNKNOWN_DEVICE ]
           ELSE [ s |-> [s EXCEPT !.opens = @ + 1,
                                  !.ihandle = fw.open_handle,
                                  !.version = tpm_get_tpm_version(s.version, fw),
                                  !.detections = @ + 1],
                  err |-> GRUB_ERR_NONE ]
    ELSE [ s |-> s, err |-> GRUB_ERR_NONE ]

\* grub_ieee1275_tpm_init with the flag set before the open: a failed open
\* counts as initialized
grub_ieee1275_tpm_init_RecordsFailure(s, fw) ==
  IF s.init_success = 0
    THEN IF fw.open_rc < 0
           THEN [ s |-> [s EXCEPT !.opens = @ + 1,
                                  !.init_success = 1,
                                  !.ihandle = IEEE1275_IHANDLE_INVALID],
                  err |-> GRUB_ERR_UNKNOWN_DEVICE ]
           ELSE [ s |-> [s EXCEPT !.opens = @ + 1,
                                  !.ihandle = fw.open_handle,
                                  !.init_success = 1,
                                  !.version = tpm_get_tpm_version(s.version, fw),
                                  !.detections = @ + 1],
                  err |-> GRUB_ERR_NONE ]
    ELSE [ s |-> s,
           err |-> IF s.ihandle = IEEE1275_IHANDLE_INVALID
                     THEN GRUB_ERR_UNKNOWN_DEVICE ELSE GRUB_ERR_NONE ]

\* grub_ieee1275_tpm_init that tries the open a second time when it fails
grub_ieee1275_tpm_init_Retries(s, fw) ==
  IF s.init_success = 0
    THEN IF fw.open_rc < 0
           THEN [ s |-> [s EXCEPT !.opens = @ + 2,
                                  !.ihandle = IEEE1275_IHANDLE_INVALID],
                  err |-> GRUB_ERR_UNKNOWN_DEVICE ]
           ELSE [ s |-> [s EXCEPT !.opens = @ + 1,
                                  !.ihandle = fw.open_handle,
                                  !.init_success = 1,
                                  !.version = tpm_get_tpm_version(s.version, fw),
                                  !.detections = @ + 1],
                  err |-> GRUB_ERR_NONE ]
    ELSE [ s |-> s, err |-> GRUB_ERR_NONE ]

\* grub_ieee1275_tpm_init with the detection outside the !init_success
\* block: every call that finds the device open detects again
grub_ieee1275_tpm_init_DetectsAlways(s, fw) ==
  IF s.init_success = 0
    THEN IF fw.open_rc < 0
           THEN [ s |-> [s EXCEPT !.opens = @ + 1,
                                  !.ihandle = IEEE1275_IHANDLE_INVALID],
                  err |-> GRUB_ERR_UNKNOWN_DEVICE ]
           ELSE [ s |-> [s EXCEPT !.opens = @ + 1,
                                  !.ihandle = fw.open_handle,
                                  !.init_success = 1,
                                  !.version = tpm_get_tpm_version(s.version, fw),
                                  !.detections = @ + 1],
                  err |-> GRUB_ERR_NONE ]
    ELSE [ s |-> [s EXCEPT !.version = tpm_get_tpm_version(s.version, fw),
                           !.detections = @ + 1],
           err |-> GRUB_ERR_NONE ]

\* grub_ieee1275_tpm_init without the return in the failure branch: a failed
\* open falls through to the end of the function
grub_ieee1275_tpm_init_FallsThrough(s, fw) ==
  IF s.init_success = 0
    THEN IF fw.open_rc < 0
           THEN [ s |-> [s EXCEPT !.opens = @ + 1,
                                  !.ihandle = IEEE1275_IHANDLE_INVALID,
                                  !.init_success = 1,
                                  !.version = tpm_get_tpm_version(s.version, fw),
                                  !.detections = @ + 1],
                  err |-> GRUB_ERR_NONE ]
           ELSE [ s |-> [s EXCEPT !.opens = @ + 1,
                                  !.ihandle = fw.open_handle,
                                  !.init_success = 1,
                                  !.version = tpm_get_tpm_version(s.version, fw),
                                  !.detections = @ + 1],
                  err |-> GRUB_ERR_NONE ]
    ELSE [ s |-> s, err |-> GRUB_ERR_NONE ]

\* grub_ieee1275_tpm_init without the reset of the handle: what the failed
\* open stored in *result stays cached
grub_ieee1275_tpm_init_KeepsFailedHandle(s, fw) ==
  IF s.init_success = 0
    THEN IF fw.open_rc < 0
           THEN [ s |-> [s EXCEPT !.opens = @ + 1,
                                  !.ihandle = fw.open_handle],
                  err |-> GRUB_ERR_UNKNOWN_DEVICE ]
           ELSE [ s |-> [s EXCEPT !.opens = @ + 1,
                                  !.ihandle = fw.open_handle,
                                  !.init_success = 1,
                                  !.version = tpm_get_tpm_version(s.version, fw),
                                  !.detections = @ + 1],
                  err |-> GRUB_ERR_NONE ]
    ELSE [ s |-> s, err |-> GRUB_ERR_NONE ]

grub_ieee1275_tpm_init(s, fw) ==
  IF s.init_success = 0
    THEN IF fw.open_rc < 0
           THEN [ s |-> [s EXCEPT !.opens = @ + 1,
                                  !.ihandle = IEEE1275_IHANDLE_INVALID],
                  err |-> GRUB_ERR_UNKNOWN_DEVICE ]
           ELSE [ s |-> [s EXCEPT !.opens = @ + 1,
                                  !.ihandle = fw.open_handle,
                                  !.init_success = 1,
                                  !.version = tpm_get_tpm_version(s.version, fw),
                                  !.detections = @ + 1],
                  err |-> GRUB_ERR_NONE ]
    ELSE [ s |-> s, err |-> GRUB_ERR_NONE ]

\* The frame of "get-maximum-cmd-size" as the entry point receives it: the
\* service and cell counts of the header, the cells of the struct in order
\* after the header, and the cells assigned before the dispatch.
tpm_get_maximum_cmd_size(s) ==
  [ name |-> "call-method", nr_ins |-> 2, nr_outs |-> 2,
    cells |-> <<"method", "ihandle", "catch_result", "size">>,
    written |-> [ method |-> "get-maximum-cmd-size",
                  ihandle |-> s.ihandle ] ]

\* the frame of "pass-through-to-tpm" declaring one input cell too few
tpm_pass_through_to_tpm_ThreeIns(s, input_size, input) ==
  [ name |-> "call-method", nr_ins |-> 3, nr_outs |-> 2,
    cells |-> <<"method", "ihandle", "buf_size", "buf_addr",
                "catch_result", "resp_size">>,
    written |-> [ method |-> "pass-through-to-tpm",
                  ihandle |-> s.ihandle,
                  buf_size |-> input_size,
                  buf_addr |-> input ] ]

\* The frame of "pass-through-to-tpm".  A cell is as wide as grub_size_t and
\* a pointer, so the casts keep the values.
tpm_pass_through_to_tpm(s, input_size, input) ==
  [ name |-> "call-method", nr_ins |-> 4, nr_outs |-> 2,
    cells |-> <<"method", "ihandle", "buf_size", "buf_addr",
                "catch_result", "resp_size">>,
    written |-> [ method |-> "pass-through-to-tpm",
                  ihandle |-> s.ihandle,
                  buf_size |-> input_size,
                  buf_addr |-> input ] ]

\* MethodFailed without "error_displayed++": the warning never latches
MethodFailed_NeverLatches(s, kind) ==
  IF s.error_displayed[kind] = 0
    THEN [ s |-> [s EXCEPT !.warnings[kind] = @ + 1],
           err |-> GRUB_ERR_BAD_DEVICE ]
    ELSE [ s |-> s, err |-> GRUB_ERR_INVALID_COMMAND ]

\* MethodFailed with one error_displayed shared by the two operations
MethodFailed_SharedFlag(s, kind) ==
  IF \A k \in Kinds : s.error_displayed[k] = 0
    THEN [ s |-> [s EXCEPT !.error_displayed[kind] = @ + 1,
                           !.warnings[kind] = @ + 1],
           err |-> GRUB_ERR_BAD_DEVICE ]
    ELSE [ s |-> s, err |-> GRUB_ERR_INVALID_COMMAND ]

\* the branch both operations take when catch_result is set
\* grub_error counts as one warning of the kind and returns its first argument.
MethodFailed(s, kind) ==
  IF s.error_displayed[kind] = 0
    THEN [ s |-> [s EXCEPT !.error_displayed[kind] = @ + 1,
                           !.warnings[kind] = @ + 1],
           err |-> GRUB_ERR_BAD_DEVICE ]
    ELSE [ s |-> s, err |-> GRUB_ERR_INVALID_COMMAND ]

\* grub_tcg2_get_max_output_size with "*size = args.size" ahead of the
\* catch_result test
grub_tcg2_get_max_output_size_StoresFirst(s, fw) ==
  LET i == grub_ieee1275_tpm_init(s, fw)
      args == tpm_get_maximum_cmd_size(i.s)
      d == [i.s EXCEPT !.dispatches = @ + 1, !.frame = args]
      w == [d EXCEPT !.size = fw.cell]
  IN IF i.err # GRUB_ERR_NONE
       THEN i
       ELSE IF fw.call_rc = -1
              THEN [ s |-> d, err |-> GRUB_ERR_INVALID_COMMAND ]
              ELSE IF fw.catch_result # 0
                     THEN MethodFailed(w, "get_max")
                     ELSE [ s |-> w, err |-> GRUB_ERR_NONE ]

\* grub_tcg2_get_max_output_size that reads catch_result before it looks at
\* what the entry point returned
grub_tcg2_get_max_output_size_TrustsCells(s, fw) ==
  LET i == grub_ieee1275_tpm_init(s, fw)
      args == tpm_get_maximum_cmd_size(i.s)
      d == [i.s EXCEPT !.dispatches = @ + 1, !.frame = args]
  IN IF i.err # GRUB_ERR_NONE
       THEN i
       ELSE IF fw.catch_result # 0
              THEN MethodFailed(d, "get_max")
              ELSE IF fw.call_rc = -1
                     THEN [ s |-> d, err |-> GRUB_ERR_INVALID_COMMAND ]
                     ELSE [ s |-> [d EXCEPT !.size = fw.cell],
                            err |-> GRUB_ERR_NONE ]

\* grub_tcg2_get_max_output_size that goes on after a failed initialization
grub_tcg2_get_max_output_size_IgnoresInit(s, fw) ==
  LET i == grub_ieee1275_tpm_init(s, fw)
      args == tpm_get_maximum_cmd_size(i.s)
      d == [i.s EXCEPT !.dispatches = @ + 1, !.frame = args]
  IN IF fw.call_rc = -1
       THEN [ s |-> d, err |-> GRUB_ERR_INVALID_COMMAND ]
       ELSE IF fw.catch_result # 0
              THEN MethodFailed(d, "get_max")
              ELSE [ s |-> [d EXCEPT !.size = fw.cell],
                     err |-> GRUB_ERR_NONE ]

\* grub_tcg2_get_max_output_size that counts a failed dispatch as a warning
\* shown
grub_tcg2_get_max_output_size_LatchesEarly(s, fw) ==
  LET i == grub_ieee1275_tpm_init(s, fw)
      args == tpm_get_maximum_cmd_size(i.s)
      d == [i.s EXCEPT !.dispatches = @ + 1, !.frame = args]
  IN IF i.err # GRUB_ERR_NONE
       THEN i
       ELSE IF fw.call_rc = -1
              THEN [ s |-> [d EXCEPT !.error_displayed["get_max"] = @ + 1],
                     err |-> GRUB_ERR_INVALID_COMMAND ]
              ELSE IF fw.catch_result # 0
                     THEN MethodFailed(d, "get_max")
                     ELSE [ s |-> [d EXCEPT !.size = fw.cell],
                            err |-> GRUB_ERR_NONE ]

\* grub_tcg2_get_max_output_size that reports a failed dispatch as bad device
grub_tcg2_get_max_output_size_WrongCode(s, fw) ==
  LET i == grub_ieee1275_tpm_init(s, fw)
      args == tpm_get_maximum_cmd_size(i.s)
      d == [i.s EXCEPT !.dispatches = @ + 1, !.frame = args]
  IN IF i.err # GRUB_ERR_NONE
       THEN i
       ELSE IF fw.call_rc = -1
              THEN [ s |-> d, err |-> GRUB_ERR_BAD_DEVICE ]
              ELSE IF fw.catch_result # 0
                     THEN MethodFailed(d, "get_max")
                     ELSE [ s |-> [d EXCEPT !.size = fw.cell],
                            err |-> GRUB_ERR_NONE ]

grub_tcg2_get_max_output_size(s, fw) ==
  LET i == grub_ieee1275_tpm_init(s, fw)
      args == tpm_get_maximum_cmd_size(i.s)
      d == [i.s EXCEPT !.dispatches = @ + 1, !.frame = args]
  IN IF i.err # GRUB_ERR_NONE
       THEN i
       ELSE IF fw.call_rc = -1
              THEN [ s |-> d, err |-> GRUB_ERR_INVALID_COMMAND ]
              ELSE IF fw.catch_result # 0
                     THEN MethodFailed(d, "get_max")
                     ELSE [ s |-> [d EXCEPT !.size = fw.cell],
                            err |-> GRUB_ERR_NONE ]

\* grub_tcg2_submit_command with the argument check after the initialization
grub_tcg2_submit_command_InitFirst(s, input_size, input, output_size, output, fw) ==
  LET i == grub_ieee1275_tpm_init(s, fw)
      args == tpm_pass_through_to_tpm(i.s, input_size, input)
      d == [i.s EXCEPT !.dispatches = @ + 1, !.frame = args]
      f == [d EXCEPT !.mem =
             FirmwareWrite(@, args.written.buf_addr,
                           FirmwareResponse(args.written.buf_size, fw))]
  IN IF i.err # GRUB_ERR_NONE
       THEN i
       ELSE IF input_size = 0 \/ input = NULL \/ output_size = 0 \/ output = NULL
              THEN [ s |-> i.s, err |-> GRUB_ERR_BAD_ARGUMENT ]
              ELSE IF fw.call_rc = -1
                     THEN [ s |-> d, err |-> GRUB_ERR_INVALID_COMMAND ]
                     ELSE IF fw.catch_result # 0
                            THEN MethodFailed(d, "submit")
                            ELSE [ s |-> [f EXCEPT !.mem =
                                            grub_memcpy(@, output, input, fw.cell)],
                                   err |-> GRUB_ERR_NONE ]

\* grub_tcg2_submit_command that copies input_size bytes, not resp_size
grub_tcg2_submit_command_CopiesBuffer(s, input_size, input, output_size, output, fw) ==
  IF input_size = 0 \/ input = NULL \/ output_size = 0 \/ output = NULL
    THEN [ s |-> s, err |-> GRUB_ERR_BAD_ARGUMENT ]
    ELSE
      LET i == grub_ieee1275_tpm_init(s, fw)
          args == tpm_pass_through_to_tpm(i.s, input_size, input)
          d == [i.s EXCEPT !.dispatches = @ + 1, !.frame = args]
          f == [d EXCEPT !.mem =
                 FirmwareWrite(@, args.written.buf_addr,
                               FirmwareResponse(args.written.buf_size, fw))]
      IN IF i.err # GRUB_ERR_NONE
           THEN i
           ELSE IF fw.call_rc = -1
                  THEN [ s |-> d, err |-> GRUB_ERR_INVALID_COMMAND ]
                  ELSE IF fw.catch_result # 0
                         THEN MethodFailed(d, "submit")
                         ELSE [ s |-> [f EXCEPT !.mem =
                                         grub_memcpy(@, output, input, input_size)],
                                err |-> GRUB_ERR_NONE ]

\* grub_tcg2_submit_command that goes on after a failed initialization
grub_tcg2_submit_command_IgnoresInit(s, input_size, input, output_size, output, fw) ==
  IF input_size = 0 \/ input = NULL \/ output_size = 0 \/ output = NULL
    THEN [ s |-> s, err |-> GRUB_ERR_BAD_ARGUMENT ]
    ELSE
      LET i == grub_ieee1275_tpm_init(s, fw)
          args == tpm_pass_through_to_tpm(i.s, input_size, input)
          d == [i.s EXCEPT !.dispatches = @ + 1, !.frame = args]
          f == [d EXCEPT !.mem =
                 FirmwareWrite(@, args.written.buf_addr,
                               FirmwareResponse(args.written.buf_size, fw))]
      IN IF fw.call_rc = -1
           THEN [ s |-> d, err |-> GRUB_ERR_INVALID_COMMAND ]
           ELSE IF fw.catch_result # 0
                  THEN MethodFailed(d, "submit")
                  ELSE [ s |-> [f EXCEPT !.mem =
                                  grub_memcpy(@, output, input, fw.cell)],
                         err |-> GRUB_ERR_NONE ]

\* grub_tcg2_submit_command that copies no more than the output buffer holds
grub_tcg2_submit_command_BoundsCopy(s, input_size, input, output_size, output, fw) ==
  IF input_size = 0 \/ input = NULL \/ output_size = 0 \/ output = NULL
    THEN [ s |-> s, err |-> GRUB_ERR_BAD_ARGUMENT ]
    ELSE
      LET i == grub_ieee1275_tpm_init(s, fw)
          args == tpm_pass_through_to_tpm(i.s, input_size, input)
          d == [i.s EXCEPT !.dispatches = @ + 1, !.frame = args]
          f == [d EXCEPT !.mem =
                 FirmwareWrite(@, args.written.buf_addr,
                               FirmwareResponse(args.written.buf_size, fw))]
      IN IF i.err # GRUB_ERR_NONE
           THEN i
           ELSE IF fw.call_rc = -1
                  THEN [ s |-> d, err |-> GRUB_ERR_INVALID_COMMAND ]
                  ELSE IF fw.catch_result # 0
                         THEN MethodFailed(d, "submit")
                         ELSE [ s |-> [f EXCEPT !.mem =
                                         grub_memcpy(@, output, input,
                                                     Min(fw.cell, output_size))],
                                err |-> GRUB_ERR_NONE ]

grub_tcg2_submit_command(s, input_size, input, output_size, output, fw) ==
  IF input_size = 0 \/ input = NULL \/ output_size = 0 \/ output = NULL
    THEN [ s |-> s, err |-> GRUB_ERR_BAD_ARGUMENT ]
    ELSE
      LET i == grub_ieee1275_tpm_init(s, fw)
          args == tpm_pass_through_to_tpm(i.s, input_size, input)
          d == [i.s EXCEPT !.dispatches = @ + 1, !.frame = args]
          \* the memory as the firmware method leaves it
          f == [d EXCEPT !.mem =
                 FirmwareWrite(@, args.written.buf_addr,
                               FirmwareResponse(args.written.buf_size, fw))]
      IN IF i.err # GRUB_ERR_NONE
           THEN i
           ELSE IF fw.call_rc = -1
                  THEN [ s |-> d, err |-> GRUB_ERR_INVALID_COMMAND ]
                  ELSE IF fw.catch_result # 0
                         THEN MethodFailed(d, "submit")
                         ELSE [ s |-> [f EXCEPT !.mem =
                                         grub_memcpy(@, output, input, fw.cell)],
                                err |-> GRUB_ERR_NONE ]

----------------------------------------------------------------------------
(* The calls *)

NoCall ==
  [ op |-> "none", ret |-> GRUB_ERR_NONE,
    input_size |-> 0, input |-> NULL, output_size |-> 0, output |-> NULL,
    opened |-> FALSE, open_rc |-> 0, fd_rc |-> 0, gp_rc |-> 0, buffer |-> <<>>,
    dispatched |-> FALSE, call_rc |-> 0, catch_result |-> 0, cell |-> 0,
    resp |-> <<>>, warned |-> FALSE, frame |-> NoFrame ]

\* What the test double saw of a call that took session s to r.s: the
\* answers it gave to the firmware calls that were made, and the return value.
Observed(op, s, r, fw, a) ==
  LET opened == r.s.opens # s.opens
      found == opened /\ fw.open_rc = 0
      read == found /\ fw.fd_rc = 0
      dispatched == r.s.dispatches # s.dispatches
      ran == dispatched /\ fw.call_rc = 0 /\ fw.catch_result = 0
  IN [ op |-> op, ret |-> r.err,
       input_size |-> a.input_size, input |-> a.input,
       output_size |-> a.output_size, output |-> a.output,
       opened |-> opened,
       open_rc |-> IF opened THEN fw.open_rc ELSE 0,
       fd_rc |-> IF found THEN fw.fd_rc ELSE 0,
       gp_rc |-> IF read THEN fw.gp_rc ELSE 0,
       buffer |-> IF read /\ fw.gp_rc = 0 THEN PropertyBuffer(fw) ELSE <<>>,
       dispatched |-> dispatched,
       call_rc |-> IF dispatched THEN fw.call_rc ELSE 0,
       catch_result |-> IF dispatched THEN fw.catch_result ELSE 0,
       cell |-> IF ran THEN fw.cell ELSE 0,
       resp |-> IF ran /\ op = "submit"
                  THEN FirmwareResponse(a.input_size, fw) ELSE <<>>,
       warned |-> r.s.warnings # s.warnings,
       frame |-> r.s.frame ]

NoArgs == [input_size |-> 0, input |-> NULL, output_size |-> 0, output |-> NULL]

\* the session after the call becomes the state
Commit(s) ==
  /\ grub_ieee1275_tpm_ihandle' = s.ihandle
  /\ grub_ieee1275_tpm_version' = s.version
  /\ init_success' = s.init_success
  /\ error_displayed' = s.error_displayed
  /\ size' = s.size
  /\ mem' = s.mem
  /\ opens' = s.opens
  /\ dispatches' = s.dispatches
  /\ detections' = s.detections
  /\ warnings' = s.warnings

\* the double's count of the dispatches it answered with catch_result set
Caught(op, s, r, fw) ==
  IF r.s.dispatches # s.dispatches /\ fw.call_rc = 0 /\ fw.catch_result # 0
    THEN [catches EXCEPT ![op] = @ + 1]
    ELSE catches

\* the double's note of the first ihandle it gave out
Opened(s, r, fw) ==
  IF first_open = 0 /\ r.s.opens # s.opens /\ fw.open_rc = 0
    THEN fw.open_handle
    ELSE first_open

WithinBounds(r) == r.s.opens <= MaxOpens /\ r.s.dispatches <= MaxDispatch

\* the firmware is asked about the device only while the device is not open
InitAnswers == IF init_success = 0 THEN InitFW ELSE {NoInitFW}

\* a call with a missing buffer is tried against one firmware, one that works
SubmitInitAnswers(a) == IF Missing(a) = {} THEN InitAnswers ELSE {NoInitFW}
SubmitCallAnswers(a) == IF Missing(a) = {} THEN SubFW ELSE {NoCallFW}

Init ==
  /\ grub_ieee1275_tpm_ihandle = IEEE1275_IHANDLE_INVALID
  /\ grub_ieee1275_tpm_version = VersionLegacy
  /\ init_success = 0
  /\ error_displayed = [k \in Kinds |-> 0]
  /\ size = InitSize
  /\ mem = InitMem
  /\ opens = 0
  /\ dispatches = 0
  /\ detections = 0
  /\ warnings = [k \in Kinds |-> 0]
  /\ catches = [k \in Kinds |-> 0]
  /\ first_open = 0
  /\ last = NoCall

\* one call: from session s with answers fw and arguments a to result r
Step(op, s, r, fw, a) ==
  /\ WithinBounds(r)
  /\ Commit(r.s)
  /\ catches' = Caught(op, s, r, fw)
  /\ first_open' = Opened(s, r, fw)
  /\ last' = Observed(op, s, r, fw, a)

CallInit ==
  \E i \in InitAnswers :
    \E fw \in {Answers(i, NoCallFW)}, s \in {Sess} :
      \E r \in {grub_ieee1275_tpm_init(s, fw)} :
        Step("init", s, r, fw, NoArgs)

CallGetMaxOutputSize ==
  \E i \in InitAnswers, c \in MaxFW :
    \E fw \in {Answers(i, c)}, s \in {Sess} :
      \E r \in {grub_tcg2_get_max_output_size(s, fw)} :
        Step("get_max", s, r, fw, NoArgs)

CallSubmitCommand ==
  \E a \in SubmitArgs :
    \E i \in SubmitInitAnswers(a), c \in SubmitCallAnswers(a) :
      \E fw \in {Answers(i, c)}, s \in {Sess} :
        \E r \in {grub_tcg2_submit_command(s, a.input_size, a.input,
                                           a.output_size, a.output, fw)} :
          Step("submit", s, r, fw, a)

Next == CallInit \/ CallGetMaxOutputSize \/ CallSubmitCommand

Spec == Init /\ [][Next]_vars

----------------------------------------------------------------------------
(* Properties *)

\* what every call leaves alone unless it reaches the firmware method
MethodState == <<size, mem, error_displayed, warnings>>
\* the session apart from the caller's memory
DeviceState ==
  <<grub_ieee1275_tpm_ihandle, grub_ieee1275_tpm_version, init_success,
    opens, dispatches, detections>>

\* C1: once an open has succeeded, every call (of grub_ieee1275_tpm_init
\* itself, or of an operation that calls it) leaves the cached handle at the
\* ihandle of that first open, makes no further open, and does not fail with
\* unknown device; grub_ieee1275_tpm_init returns success.
C1_InitIdempotentAfterSuccess ==
  [][first_open # 0 =>
       /\ grub_ieee1275_tpm_ihandle = first_open
       /\ grub_ieee1275_tpm_ihandle' = first_open
       /\ opens' = opens
       /\ ~last'.opened
       /\ last'.ret # GRUB_ERR_UNKNOWN_DEVICE
       /\ (last'.op = "init" => last'.ret = GRUB_ERR_NONE)]_vars

\* a later grub_ieee1275_tpm_init, after the success, that opened nothing
C1_Witness ==
  /\ first_open # 0
  /\ last.op = "init"
  /\ ~last.opened
  /\ last.ret = GRUB_ERR_NONE
  /\ grub_ieee1275_tpm_ihandle = first_open
  /\ opens = 1

\* C2 as stated: after a failed open, no call opens again and
\* grub_ieee1275_tpm_init keeps returning unknown device.
C2_FailureIsRecorded ==
  [][(first_open = 0 /\ opens >= 1) =>
       /\ opens' = opens
       /\ (last'.op = "init" => last'.ret = GRUB_ERR_UNKNOWN_DEVICE)]_vars

\* C2 (amended): a failed open is not recorded.  While no open has succeeded
\* the cached handle is the invalid sentinel and init_success is clear, and
\* each grub_ieee1275_tpm_init call opens again: it returns unknown device
\* when that open fails too, and success, with the new ihandle cached, when
\* it succeeds.
C2_FailedOpenIsRetried ==
  [][(first_open = 0 /\ opens >= 1) =>
       /\ grub_ieee1275_tpm_ihandle = IEEE1275_IHANDLE_INVALID
       /\ init_success = 0
       /\ last'.op = "init" =>
            /\ opens' = opens + 1
            /\ last'.opened
            /\ IF last'.open_rc < 0
                 THEN /\ last'.ret = GRUB_ERR_UNKNOWN_DEVICE
                      /\ grub_ieee1275_tpm_ihandle' = IEEE1275_IHANDLE_INVALID
                 ELSE /\ last'.ret = GRUB_ERR_NONE
                      /\ grub_ieee1275_tpm_ihandle' = first_open'
                      /\ first_open' # 0]_vars

\* the second grub_ieee1275_tpm_init opened again, and this time succeeded
C2_Witness ==
  /\ opens = 2
  /\ last.op = "init"
  /\ last.opened
  /\ last.open_rc = 0
  /\ last.ret = GRUB_ERR_NONE
  /\ grub_ieee1275_tpm_ihandle # IEEE1275_IHANDLE_INVALID

\* C3: of the calls of one kind that come back with catch_result set, the
\* first returns bad device and emits the warning, every later one returns
\* invalid command and emits none; the warning is emitted exactly once.
C3_WarningOnFirstFailureOnly ==
  [][\A k \in Kinds :
       catches'[k] = catches[k] + 1 =>
         /\ last'.op = k
         /\ IF catches[k] = 0
              THEN /\ last'.ret = GRUB_ERR_BAD_DEVICE
                   /\ last'.warned
                   /\ warnings'[k] = warnings[k] + 1
              ELSE /\ last'.ret = GRUB_ERR_INVALID_COMMAND
                   /\ ~last'.warned
                   /\ warnings'[k] = warnings[k]
         /\ warnings'[k] = 1]_vars

\* the second failing call of a kind: invalid command, still one warning
C3_Witness ==
  \E k \in Kinds :
    /\ catches[k] = 2
    /\ warnings[k] = 1
    /\ last.op = k
    /\ last.catch_result # 0
    /\ last.ret = GRUB_ERR_INVALID_COMMAND
    /\ ~last.warned

\* C4: at most one warning per kind, and each kind on its own: a kind has
\* warned exactly when a call of that kind came back with catch_result set,
\* whatever the other kind has done.
C4_OneWarningPerKind ==
  \A k \in Kinds :
    /\ warnings[k] <= 1
    /\ warnings[k] = 1 <=> catches[k] >= 1

\* both kinds have warned, the second after the first
C4_Witness ==
  /\ warnings["get_max"] = 1
  /\ warnings["submit"] = 1
  /\ last.warned

\* C5: grub_tcg2_submit_command with a missing buffer returns bad argument
\* and changes nothing: no open, no dispatch, no write.
C5_BadArgumentTouchesNothing ==
  [][(last'.op = "submit" /\ Missing(last') # {}) =>
       /\ last'.ret = GRUB_ERR_BAD_ARGUMENT
       /\ ~last'.opened
       /\ ~last'.dispatched
       /\ UNCHANGED DeviceState
       /\ UNCHANGED MethodState]_vars

\* a call without an output buffer, in a session that has dispatched before
C5_Witness ==
  /\ last.op = "submit"
  /\ last.output = NULL
  /\ last.input # NULL
  /\ last.ret = GRUB_ERR_BAD_ARGUMENT
  /\ init_success = 1
  /\ dispatches > 0

\* the buffer holds str and its NUL: what a reader of the C string sees
ReadsAs(buffer, str) ==
  /\ Len(buffer) > Len(str)
  /\ SubSeq(buffer, 1, Len(str)) = str
  /\ buffer[Len(str) + 1] = 0

\* C6: the version is legacy until an open succeeds.  The call whose open
\* succeeds sets it to 2 exactly when the device node was found, the
\* "compatible" property was read and the buffer reads "IBM,vtpm20"; in every
\* other case it stays legacy, and the initialization succeeds all the same.
\* No other call changes the version.
C6_VersionDetection ==
  [][/\ first_open = 0 => grub_ieee1275_tpm_version = VersionLegacy
     /\ IF last'.opened /\ last'.open_rc = 0
          THEN /\ grub_ieee1275_tpm_version' =
                    IF /\ last'.fd_rc = 0
                       /\ last'.gp_rc = 0
                       /\ ReadsAs(last'.buffer, IBM_vtpm20)
                      THEN VersionTpm2
                      ELSE VersionLegacy
               /\ last'.ret # GRUB_ERR_UNKNOWN_DEVICE
               /\ last'.op = "init" => last'.ret = GRUB_ERR_NONE
          ELSE grub_ieee1275_tpm_version' = grub_ieee1275_tpm_version]_vars

\* an initialization that read another string: success, version legacy
C6_Witness ==
  /\ last.op = "init"
  /\ last.opened
  /\ last.open_rc = 0
  /\ last.buffer # <<>>
  /\ ~ReadsAs(last.buffer, IBM_vtpm20)
  /\ SubSeq(last.buffer, 1, 8) = SubSeq(IBM_vtpm20, 1, 8)
  /\ last.ret = GRUB_ERR_NONE
  /\ grub_ieee1275_tpm_version = VersionLegacy

\* an initialization that read "IBM,vtpm20": version 2
C6_WitnessTpm2 ==
  /\ last.opened
  /\ ReadsAs(last.buffer, IBM_vtpm20)
  /\ grub_ieee1275_tpm_version = VersionTpm2


\* C7: a grub_tcg2_submit_command whose dispatch succeeded with catch_result
\* clear and a response length R no longer than the input returns success
\* and leaves, in the first R bytes of the output buffer, the R bytes the
\* firmware wrote to the input buffer (which the input buffer still holds),
\* and leaves the output bytes from R on as they were before the call.
C7_RoundTrip ==
  [][(/\ last'.op = "submit"
      /\ last'.dispatched
      /\ last'.call_rc = 0
      /\ last'.catch_result = 0
      /\ last'.cell <= last'.input_size) =>
       /\ last'.ret = GRUB_ERR_NONE
       /\ Len(last'.resp) = last'.cell
       /\ \A i \in 0..(last'.cell - 1) :
            /\ mem'[last'.output + i] = last'.resp[i + 1]
            /\ mem'[last'.output + i] = mem'[last'.input + i]
       /\ \A i \in last'.cell..(last'.output_size - 1) :
            mem'[last'.output + i] = mem[last'.output + i]]_vars

\* one byte came back into an output buffer apart from the input buffer;
\* the second output byte is the caller's own
C7_Witness ==
  /\ last.op = "submit"
  /\ last.ret = GRUB_ERR_NONE
  /\ last.cell = 1
  /\ last.input_size > 1
  /\ last.output # last.input
  /\ mem[last.output] = last.resp[1]
  /\ mem[last.output] # InitMem[last.output]
  /\ mem[last.output + 1] = InitMem[last.output + 1]

\* C8: grub_tcg2_get_max_output_size stores the size cell, whatever it holds,
\* in *size when the dispatch succeeded with catch_result clear, and returns
\* success; on every other path it returns an error and leaves *size alone.
C8_SizeVerbatim ==
  [][last'.op = "get_max" =>
       IF last'.dispatched /\ last'.call_rc = 0 /\ last'.catch_result = 0
         THEN /\ last'.ret = GRUB_ERR_NONE
              /\ size' = last'.cell
         ELSE /\ last'.ret # GRUB_ERR_NONE
              /\ size' = size]_vars

\* the firmware said 4096 and *size is 4096
C8_Witness ==
  /\ last.op = "get_max"
  /\ last.ret = GRUB_ERR_NONE
  /\ last.cell = 4096
  /\ size = 4096

\* C9: when the entry point returns -1 the operation returns invalid command
\* and has written nothing: *size, the caller's memory, error_displayed and
\* the warnings are as before, whatever the result cells hold.
C9_DispatchFailure ==
  [][(last'.dispatched /\ last'.call_rc = -1) =>
       /\ last'.op \in Kinds
       /\ last'.ret = GRUB_ERR_INVALID_COMMAND
       /\ ~last'.warned
       /\ UNCHANGED MethodState]_vars

\* the entry point failed with catch_result set: invalid command, no warning
C9_Witness ==
  /\ last.dispatched
  /\ last.call_rc = -1
  /\ last.catch_result # 0
  /\ last.ret = GRUB_ERR_INVALID_COMMAND
  /\ \A k \in Kinds : error_displayed[k] = 0

\* C10: an operation whose initialization fails returns unknown device, the
\* error of grub_ieee1275_tpm_init, without a dispatch and without a write.
C10_InitErrorPropagates ==
  [][(last'.op \in Kinds /\ last'.opened /\ last'.open_rc < 0) =>
       /\ last'.ret = GRUB_ERR_UNKNOWN_DEVICE
       /\ ~last'.dispatched
       /\ dispatches' = dispatches
       /\ grub_ieee1275_tpm_ihandle' = IEEE1275_IHANDLE_INVALID
       /\ UNCHANGED MethodState]_vars

\* a submission with both buffers whose open failed
C10_Witness ==
  /\ last.op = "submit"
  /\ Missing(last) = {}
  /\ last.opened
  /\ last.open_rc < 0
  /\ last.ret = GRUB_ERR_UNKNOWN_DEVICE
  /\ dispatches = 0

\* C11: between calls the cached handle is the invalid sentinel or the
\* ihandle a successful open returned.  It leaves the sentinel at most once,
\* in the call whose open is the first to succeed; from then on no call
\* changes it or opens the device.
C11_HandleSetOnce ==
  [][/\ grub_ieee1275_tpm_ihandle \in {IEEE1275_IHANDLE_INVALID, first_open}
     /\ grub_ieee1275_tpm_ihandle' \in {IEEE1275_IHANDLE_INVALID, first_open'}
     /\ grub_ieee1275_tpm_ihandle' # grub_ieee1275_tpm_ihandle =>
          /\ grub_ieee1275_tpm_ihandle = IEEE1275_IHANDLE_INVALID
          /\ first_open = 0
          /\ last'.opened
          /\ last'.open_rc = 0
          /\ grub_ieee1275_tpm_ihandle' \in Handles
     /\ grub_ieee1275_tpm_ihandle # IEEE1275_IHANDLE_INVALID =>
          /\ grub_ieee1275_tpm_ihandle' = grub_ieee1275_tpm_ihandle
          /\ ~last'.opened
          /\ opens' = opens]_vars

\* the handle of an open that succeeded at the second attempt, still cached
\* after a later submission
C11_Witness ==
  /\ grub_ieee1275_tpm_ihandle \in Handles
  /\ grub_ieee1275_tpm_ihandle = first_open
  /\ opens = 2
  /\ last.op = "submit"
  /\ last.dispatched
  /\ ~last.opened

\* C12: no call retries.  One call makes at most one open and at most one
\* dispatch, whatever their outcome: a failed open or a failed dispatch ends
\* the call with the error.  grub_ieee1275_tpm_init dispatches nothing.
C12_NoRetry ==
  [][/\ opens' \in {opens, opens + 1}
     /\ dispatches' \in {dispatches, dispatches + 1}
     /\ last'.opened <=> opens' = opens + 1
     /\ last'.dispatched <=> dispatches' = dispatches + 1
     /\ last'.op = "init" => dispatches' = dispatches
     /\ (last'.opened /\ last'.open_rc < 0) =>
          /\ dispatches' = dispatches
          /\ last'.ret = GRUB_ERR_UNKNOWN_DEVICE
     /\ (last'.dispatched /\ last'.call_rc = -1) =>
          last'.ret = GRUB_ERR_INVALID_COMMAND]_vars

\* the first call of the session opened once and dispatched once, and the
\* dispatch failed
C12_Witness ==
  /\ last.op = "get_max"
  /\ last.opened
  /\ last.dispatched
  /\ last.call_rc = -1
  /\ opens = 1
  /\ dispatches = 1

\* a call whose open failed made that one attempt only
C12_WitnessOpen ==
  /\ last.op = "submit"
  /\ last.opened
  /\ last.open_rc < 0
  /\ opens = 1
  /\ dispatches = 0

\* C13: a grub_tcg2_submit_command whose dispatch succeeded with catch_result
\* clear returns success whatever the response length R is, and leaves memory
\* as the firmware left it except for the R bytes from output on, which hold
\* the R bytes that stood from input on.  R is bounded neither by output_size
\* nor by input_size.
C13_CopiesRespSize ==
  [][(/\ last'.op = "submit"
      /\ last'.dispatched
      /\ last'.call_rc = 0
      /\ last'.catch_result = 0) =>
       LET \* memory once the firmware has written its response over the
           \* input buffer, before the copy
           left == [a \in Addrs |->
                      IF a >= last'.input /\ a < last'.input + Len(last'.resp)
                        THEN last'.resp[a - last'.input + 1]
                        ELSE mem[a]]
       IN /\ last'.ret = GRUB_ERR_NONE
          /\ \A a \in Addrs :
               mem'[a] =
                 IF a >= last'.output /\ a < last'.output + last'.cell
                   THEN left[last'.input + (a - last'.output)]
                   ELSE left[a]]_vars

\* the only dispatch of the session answered with a response longer than the
\* output buffer, apart from the input buffer: the call returned success and
\* the byte after the output buffer is no longer the caller's
C13_Witness ==
  /\ dispatches = 1
  /\ last.op = "submit"
  /\ last.ret = GRUB_ERR_NONE
  /\ last.cell > last.output_size
  /\ last.cell > last.input_size
  /\ last.output # last.input
  /\ mem[last.output + last.output_size] # InitMem[last.output + last.output_size]
  /\ mem[last.output] = last.resp[1]

\* C14: tpm_get_tpm_version runs at most once in a session, in the call whose
\* open is the first to succeed, and only that call changes the version, from
\* legacy to 2.  A version of 2 implies that an open has succeeded, and a
\* version of 2 stays.
C14_VersionSetOnce ==
  [][/\ detections \in {0, 1}
     /\ detections' \in {0, 1}
     /\ detections' # detections =>
          /\ first_open = 0
          /\ first_open' # 0
          /\ last'.opened
          /\ last'.open_rc = 0
     /\ grub_ieee1275_tpm_version' # grub_ieee1275_tpm_version =>
          /\ detections' = detections + 1
          /\ grub_ieee1275_tpm_version = VersionLegacy
          /\ grub_ieee1275_tpm_version' = VersionTpm2
     /\ grub_ieee1275_tpm_version = VersionTpm2 =>
          /\ first_open # 0
          /\ grub_ieee1275_tpm_version' = VersionTpm2
     /\ grub_ieee1275_tpm_version' = VersionTpm2 => first_open' # 0]_vars

\* the device was opened by the second attempt and detected as version 2;
\* an operation after that dispatched and left the version alone
C14_Witness ==
  /\ grub_ieee1275_tpm_version = VersionTpm2
  /\ detections = 1
  /\ opens = 2
  /\ first_open # 0
  /\ last.op \in Kinds
  /\ last.dispatched
  /\ ~last.opened

\* C15: the value the latest call returned is one of its operation's:
\* success or unknown device for grub_ieee1275_tpm_init; those two, invalid
\* command or bad device for grub_tcg2_get_max_output_size; those four or bad
\* argument for grub_tcg2_submit_command.  Bad device comes only from a call
\* whose dispatch succeeded and came back with catch_result set.
C15_ErrorTaxonomy ==
  /\ last.op = "init" =>
       last.ret \in {GRUB_ERR_NONE, GRUB_ERR_UNKNOWN_DEVICE}
  /\ last.op = "get_max" =>
       last.ret \in {GRUB_ERR_NONE, GRUB_ERR_UNKNOWN_DEVICE,
                     GRUB_ERR_INVALID_COMMAND, GRUB_ERR_BAD_DEVICE}
  /\ last.op = "submit" =>
       last.ret \in {GRUB_ERR_NONE, GRUB_ERR_UNKNOWN_DEVICE,
                     GRUB_ERR_INVALID_COMMAND, GRUB_ERR_BAD_DEVICE,
                     GRUB_ERR_BAD_ARGUMENT}
  /\ last.ret = GRUB_ERR_BAD_DEVICE =>
       /\ last.op \in Kinds
       /\ last.dispatched
       /\ last.call_rc = 0
       /\ last.catch_result # 0

\* a grub_tcg2_submit_command returned bad device: its dispatch went through
\* and the failure flag was set
C15_Witness ==
  /\ last.op = "submit"
  /\ last.ret = GRUB_ERR_BAD_DEVICE
  /\ last.dispatched
  /\ last.call_rc = 0
  /\ last.catch_result # 0

\* C16: the frame a call hands to the entry point is a "call-method" frame
\* whose struct has as many cells as the header declares, with every declared
\* input cell assigned.  grub_tcg2_get_max_output_size declares 2 and 2:
\* method "get-maximum-cmd-size" and the handle in, catch_result and size out.
\* grub_tcg2_submit_command declares 4 and 2: method "pass-through-to-tpm",
\* the handle, buf_size = input_size and buf_addr = input in, catch_result
\* and resp_size out.
C16_FrameShape ==
  last.dispatched =>
    LET f == last.frame
        ins == SubSeq(f.cells, 1, f.nr_ins)
        outs == SubSeq(f.cells, f.nr_ins + 1, Len(f.cells))
    IN /\ f.name = "call-method"
       /\ Len(f.cells) = f.nr_ins + f.nr_outs
       /\ \A i \in 1..f.nr_ins : f.cells[i] \in DOMAIN f.written
       /\ f.written.ihandle = grub_ieee1275_tpm_ihandle
       /\ IF last.op = "get_max"
            THEN /\ f.nr_ins = 2
                 /\ f.nr_outs = 2
                 /\ ins = <<"method", "ihandle">>
                 /\ outs = <<"catch_result", "size">>
                 /\ f.written.method = "get-maximum-cmd-size"
            ELSE /\ last.op = "submit"
                 /\ f.nr_ins = 4
                 /\ f.nr_outs = 2
                 /\ ins = <<"method", "ihandle", "buf_size", "buf_addr">>
                 /\ outs = <<"catch_result", "resp_size">>
                 /\ f.written.method = "pass-through-to-tpm"
                 /\ f.written.buf_size = last.input_size
                 /\ f.written.buf_addr = last.input

\* a grub_tcg2_submit_command handed its frame to the entry point, with the
\* caller's buffer in it
C16_Witness ==
  /\ last.op = "submit"
  /\ last.dispatched
  /\ last.frame.nr_ins = 4
  /\ last.frame.written.buf_addr = InAddr
  /\ last.frame.written.buf_size = BufLen
  /\ last.frame.written.ihandle \in Handles

\* a grub_tcg2_get_max_output_size handed its frame to the entry point
C16_WitnessGetMax ==
  /\ last.op = "get_max"
  /\ last.dispatched
  /\ last.frame.nr_ins = 2
  /\ last.frame.written.method = "get-maximum-cmd-size"

\* C17: a call that dispatched did so after an open had succeeded, in this
\* call or an earlier one, and the handle cell of its frame held the ihandle
\* that open returned: never the invalid sentinel, never what a failed open
\* left behind.
C17_DispatchUsesOpenedHandle ==
  last.dispatched =>
    /\ last.op \in Kinds
    /\ first_open # 0
    /\ last.frame.written.ihandle = first_open
    /\ last.frame.written.ihandle # IEEE1275_IHANDLE_INVALID
    /\ ~(last.opened /\ last.open_rc < 0)

\* after a failed open, the call that opened the device dispatched with the
\* handle it had just been given
C17_Witness ==
  /\ opens = 2
  /\ last.op = "get_max"
  /\ last.opened
  /\ last.open_rc = 0
  /\ last.dispatched
  /\ last.frame.written.ihandle = first_open
  /\ first_open \in Handles

\* C18: when grub_ieee1275_tpm_init returns, it returns success exactly if an
\* open has succeeded, in this call or before it, and unknown device exactly
\* if none has and the open this call made failed; it then leaves the cached
\* handle at the invalid sentinel.
C18_InitReturn ==
  last.op = "init" =>
    /\ last.ret = GRUB_ERR_NONE <=> first_open # 0
    /\ last.ret = GRUB_ERR_UNKNOWN_DEVICE <=>
         (first_open = 0 /\ last.opened /\ last.open_rc < 0)
    /\ last.ret = GRUB_ERR_UNKNOWN_DEVICE =>
         grub_ieee1275_tpm_ihandle = IEEE1275_IHANDLE_INVALID
    /\ last.ret = GRUB_ERR_NONE =>
         /\ grub_ieee1275_tpm_ihandle = first_open
         /\ last.opened => last.open_rc = 0

\* the second grub_ieee1275_tpm_init failed as the first had: unknown device
\* again, the handle at the sentinel
C18_Witness ==
  /\ last.op = "init"
  /\ opens = 2
  /\ first_open = 0
  /\ last.opened
  /\ last.open_rc < 0
  /\ last.ret = GRUB_ERR_UNKNOWN_DEVICE
  /\ grub_ieee1275_tpm_ihandle = IEEE1275_IHANDLE_INVALID

\* grub_ieee1275_tpm_init returned success on the strength of an open made
\* by an earlier operation
C18_WitnessEarlier ==
  /\ last.op = "init"
  /\ last.ret = GRUB_ERR_NONE
  /\ ~last.opened
  /\ dispatches >= 1
  /\ first_open # 0

\* C19: error_displayed of a kind changes only in a call of that kind whose
\* dispatch succeeded and came back with catch_result set.  A call that ends
\* in bad argument, unknown device, a failed dispatch or success leaves both
\* flags alone.  So the flag of a kind is clear until the first such call of
\* the kind, and that call returns bad device, whatever preceded it.
C19_WarningConsumedByMethodFailure ==
  [][/\ \A k \in Kinds :
          /\ error_displayed'[k] # error_displayed[k] =>
               /\ last'.op = k
               /\ last'.dispatched
               /\ last'.call_rc = 0
               /\ last'.catch_result # 0
               /\ catches'[k] = catches[k] + 1
          /\ catches[k] = 0 => error_displayed[k] = 0
          /\ (catches[k] = 0 /\ catches'[k] = 1) =>
               /\ last'.op = k
               /\ last'.ret = GRUB_ERR_BAD_DEVICE
     /\ (\/ last'.ret \in {GRUB_ERR_BAD_ARGUMENT, GRUB_ERR_UNKNOWN_DEVICE,
                           GRUB_ERR_NONE}
         \/ (last'.dispatched /\ last'.call_rc = -1)) =>
          error_displayed' = error_displayed]_vars

\* after a failed open and after the other kind had used up its warning, the
\* first grub_tcg2_submit_command to come back with catch_result set returned
\* bad device
C19_Witness ==
  /\ last.op = "submit"
  /\ last.ret = GRUB_ERR_BAD_DEVICE
  /\ catches["submit"] = 1
  /\ catches["get_max"] = 1
  /\ opens = 2
  /\ dispatches = 2

\* the second dispatch of the session, with nothing stored by the first, was
\* the first to come back with catch_result set: bad device
C19_WitnessAfterDispatchFailure ==
  /\ last.op = "get_max"
  /\ last.ret = GRUB_ERR_BAD_DEVICE
  /\ catches["get_max"] = 1
  /\ catches["submit"] = 0
  /\ dispatches = 2
  /\ size = InitSize
  /\ mem = InitMem

====
